---- MODULE Spec2Model ----
(***************************************************************************)
(* Model of ladder.py: bidirectional A* word-ladder search over letter     *)
(* histograms.  Word indices are 0-based as in the source; -1 is the       *)
(* "not found" value of hist_to_index.  An optional node (None or a Node)  *)
(* is a sequence of length 0 or 1.                                         *)
(***************************************************************************)
EXTENDS Integers, Sequences, FiniteSets, TLC

VARIABLES
    words_original,  \* original spellings, file order          (ladder.py:62)
    wordlist,        \* histogram of every dictionary line      (ladder.py:63)
    north,           \* SearchGraph start -> target             (ladder.py:226)
    south,           \* SearchGraph target -> start             (ladder.py:227)
    solution,        \* BiSearchGraph.solution                  (ladder.py:228)
    returned,        \* value returned by BiSearchGraph.search  (ladder.py:269)
    emitted,         \* words printed by display_moves          (ladder.py:270)
    error,           \* "" or the name of the uncaught exception
    pc,              \* position in BiSearchGraph.search / the main script
    inserted,        \* history: per graph, the word indices in the order their
                     \* nodes were put into the frontier (the root first)
    walk             \* a sequence of ladder moves on histograms, for heuristic

vars == <<words_original, wordlist, north, south, solution, returned, emitted, error, pc,
          inserted, walk>>

----------------------------------------------------------------------------
(* Characters and words.  A word is a sequence of one-character strings.   *)

NumLetters == 26

Alphabet ==
    <<"a","b","c","d","e","f","g","h","i","j","k","l","m",
      "n","o","p","q","r","s","t","u","v","w","x","y","z">>

UpperAlphabet ==
    <<"A","B","C","D","E","F","G","H","I","J","K","L","M",
      "N","O","P","Q","R","S","T","U","V","W","X","Y","Z">>

\* str.lower() on one character
lower(ch) ==
    IF \E i \in 1..NumLetters : UpperAlphabet[i] = ch
    THEN Alphabet[CHOOSE i \in 1..NumLetters : UpperAlphabet[i] = ch]
    ELSE ch

\* str.isalpha() on one (already lower-cased) character
isalpha(ch) == \E i \in 1..NumLetters : Alphabet[i] = ch

\* ord(letter) - 97
ord97(ch) == (CHOOSE i \in 1..NumLetters : Alphabet[i] = ch) - 1

\* word_to_histogram: count of every letter a..z, other characters ignored
word_to_histogram(wordin) ==
    [k \in 0..(NumLetters - 1) |->
        Cardinality({i \in 1..Len(wordin) :
            /\ isalpha(lower(wordin[i]))
            /\ ord97(lower(wordin[i])) = k})]

Abs(x) == IF x < 0 THEN -x ELSE x

RECURSIVE SumAbsDiff(_, _, _)
SumAbsDiff(h1, h2, k) ==
    IF k = NumLetters THEN 0
    ELSE Abs(h1[k] - h2[k]) + SumAbsDiff(h1, h2, k + 1)

\* a wrong distance that counts a letter replacement as one move
RECURSIVE SumPos(_, _, _)
SumPos(h1, h2, k) ==
    IF k = NumLetters THEN 0
    ELSE (IF h1[k] > h2[k] THEN h1[k] - h2[k] ELSE 0) + SumPos(h1, h2, k + 1)

heuristicSubst(hist1, hist2) ==
    LET up == SumPos(hist1, hist2, 0)
        down == SumPos(hist2, hist1, 0)
    IN IF up > down THEN up ELSE down

\* a wrong distance that sums the squares of the differences
RECURSIVE SumSquares(_, _, _)
SumSquares(h1, h2, k) ==
    IF k = NumLetters THEN 0
    ELSE (h1[k] - h2[k]) * (h1[k] - h2[k]) + SumSquares(h1, h2, k + 1)

heuristicSquared(hist1, hist2) == SumSquares(hist1, hist2, 0)

\* heuristic: L1 distance between two histograms
heuristic(hist1, hist2) == SumAbsDiff(hist1, hist2, 0)

\* wordlist[index, :] with Python's indexing (-1 is the last row)
Row(index) == IF index < 0 THEN wordlist[Len(wordlist) + 1 + index] ELSE wordlist[index + 1]

OriginalWord(index) ==
    IF index < 0 THEN words_original[Len(words_original) + 1 + index]
    ELSE words_original[index + 1]

\* a scan that returns the index of the last word with the histogram
hist_to_indexLast(other_hist) ==
    IF \E i \in 1..Len(wordlist) : wordlist[i] = other_hist
    THEN (CHOOSE i \in 1..Len(wordlist) :
            /\ wordlist[i] = other_hist
            /\ \A j \in (i + 1)..Len(wordlist) : wordlist[j] # other_hist) - 1
    ELSE -1

\* hist_to_index: first (lowest) index with that histogram, else -1
hist_to_index(other_hist) ==
    IF \E i \in 1..Len(wordlist) : wordlist[i] = other_hist
    THEN (CHOOSE i \in 1..Len(wordlist) :
            /\ wordlist[i] = other_hist
            /\ \A j \in 1..(i - 1) : wordlist[j] # other_hist) - 1
    ELSE -1

----------------------------------------------------------------------------
(* Node                                                                    *)

\* Node(mygraph0): the root node of a graph
RootNode(start_hist, target_hist) ==
    LET h == heuristic(start_hist, target_hist)
    IN [current_hist |-> start_hist,
        cost_f       |-> 0,
        cost_h       |-> h,
        cost_total   |-> 0 + h,
        actions      |-> <<hist_to_index(start_hist)>>]

\* Node(mygraph0, other_Node): the copy constructor
CopyNode(other_Node) ==
    [current_hist |-> other_Node.current_hist,
     cost_f       |-> other_Node.cost_f,
     cost_h       |-> other_Node.cost_h,
     cost_total   |-> other_Node.cost_f + other_Node.cost_h,
     actions      |-> other_Node.actions]

move_to_neighbour(self, new_hist, new_index, target_hist) ==
    LET f == self.cost_f + 1
        h == heuristic(new_hist, target_hist)
    IN [current_hist |-> new_hist,
        cost_f       |-> f,
        cost_h       |-> h,
        cost_total   |-> f + h,
        actions      |-> Append(self.actions, new_index)]

\* a comparison of the paths instead of the histograms
is_same_wordByPath(self, other) == self.actions = other.actions

is_same_word(self, other) == self.current_hist = other.current_hist

\* is_in_list: position of the first node of mylist with the same histogram,
\* 0 for the False the source returns
is_in_list(self, mylist) ==
    IF \E i \in 1..Len(mylist) : is_same_word(self, mylist[i])
    THEN CHOOSE i \in 1..Len(mylist) :
            /\ is_same_word(self, mylist[i])
            /\ \A j \in 1..(i - 1) : ~is_same_word(self, mylist[j])
    ELSE 0

Reverse(s) == [i \in 1..Len(s) |-> s[Len(s) + 1 - i]]

\* attach: mutates both nodes (other.actions is reversed in place) and
\* returns nothing
attach(self, other) ==
    LET flipped == Reverse(other.actions)
        f == self.cost_f + other.cost_f
    IN [self  |-> [self EXCEPT !.actions = self.actions \o flipped,
                               !.cost_f = f,
                               !.cost_h = 0,
                               !.cost_total = f + 0],
        other |-> [other EXCEPT !.actions = flipped],
        ret   |-> <<>>]

\* list_of_moves of a node of graph g
list_of_moves(self, g) ==
    [i \in 1..Len(self.actions) |->
        LET index == self.actions[i]
        IN IF heuristic(Row(index), g.start_hist) = 0 THEN g.start_word
           ELSE IF heuristic(Row(index), g.target_hist) = 0 THEN g.target_word
           ELSE OriginalWord(index)]

\* Node.__lt__
NodeLt(self, other) == self.cost_total < other.cost_total

----------------------------------------------------------------------------
(* SearchGraph                                                             *)

SearchGraph(start_word0, target_word0) ==
    LET sh == word_to_histogram(start_word0)
        th == word_to_histogram(target_word0)
    IN [start_word  |-> start_word0,
        target_word |-> target_word0,
        start_hist  |-> sh,
        target_hist |-> th,
        frontier    |-> <<RootNode(sh, th)>>,
        closed      |-> <<>>,
        solution    |-> <<>>]

\* list.sort(): stable, driven by __lt__ only
RECURSIVE InsertSorted(_, _)
InsertSorted(sorted, nd) ==
    IF sorted = <<>> THEN <<nd>>
    ELSE IF NodeLt(nd, sorted[Len(sorted)])
         THEN Append(InsertSorted(SubSeq(sorted, 1, Len(sorted) - 1), nd), sorted[Len(sorted)])
         ELSE Append(sorted, nd)

RECURSIVE SortFrontier(_)
SortFrontier(frontier) ==
    IF frontier = <<>> THEN <<>>
    ELSE InsertSorted(SortFrontier(SubSeq(frontier, 1, Len(frontier) - 1)),
                      frontier[Len(frontier)])

\* a test that never takes a graph's root for a solution
IsSolutionNodeMoved(test_node) == test_node.cost_h = 0 /\ test_node.cost_f > 0

\* the test that ends a search_step with a solution
IsSolutionNode(test_node) == test_node.cost_h = 0

\* the for loop of search_step, from row new_index on
RECURSIVE Expand(_, _, _, _, _)
Expand(frontier, closed, test_node, target_hist, new_index) ==
    IF new_index >= Len(wordlist) THEN frontier
    ELSE LET next_hist == Row(new_index)
         IN IF heuristic(next_hist, test_node.current_hist) = 1
            THEN LET new_node == move_to_neighbour(CopyNode(test_node), next_hist,
                                                   new_index, target_hist)
                 IN IF is_in_list(new_node, closed) = 0
                    THEN IF is_in_list(new_node, frontier) = 0
                         THEN Expand(Append(frontier, new_node), closed, test_node,
                                     target_hist, new_index + 1)
                         \* "tmp = new_node" rebinds a local name only
                         ELSE Expand(frontier, closed, test_node, target_hist, new_index + 1)
                    ELSE Expand(frontier, closed, test_node, target_hist, new_index + 1)
            ELSE Expand(frontier, closed, test_node, target_hist, new_index + 1)

\* search_step: the graph afterwards and the returned node (or None)
search_step(g) ==
    LET sorted == SortFrontier(g.frontier)
        test_node == Head(sorted)
        rest == Tail(sorted)
    IN IF IsSolutionNode(test_node)
       THEN [graph |-> [g EXCEPT !.frontier = rest, !.solution = <<test_node>>],
             ret   |-> <<test_node>>]
       ELSE LET closed1 == Append(g.closed, test_node)
            IN [graph |-> [g EXCEPT !.frontier = Expand(rest, closed1, test_node,
                                                        g.target_hist, 0),
                                    !.closed = closed1],
                ret   |-> <<>>]

----------------------------------------------------------------------------
(* BiSearchGraph                                                           *)

\* the pairs (position in north.frontier, position in south.frontier) of
\* nodes with the same histogram
MeetingPairs(n, s) ==
    {p \in (1..Len(n.frontier)) \X (1..Len(s.frontier)) :
        is_same_word(n.frontier[p[1]], s.frontier[p[2]])}

\* first pair in the enumeration order of the two nested for loops
FirstPair(n, s) ==
    CHOOSE p \in MeetingPairs(n, s) :
        \A q \in MeetingPairs(n, s) :
            \/ p[1] < q[1]
            \/ (p[1] = q[1] /\ p[2] <= q[2])

\* an intersection check that fuses the two first frontier nodes without
\* comparing their histograms
intersectUnchecked(n, s) ==
    IF n.frontier = <<>> \/ s.frontier = <<>>
    THEN [north |-> n, south |-> s, ret |-> <<>>]
    ELSE LET a == attach(n.frontier[1], s.frontier[1])
         IN [north |-> [n EXCEPT !.frontier[1] = a.self],
             south |-> [s EXCEPT !.frontier[1] = a.other],
             ret   |-> a.ret]

\* intersect: both graphs afterwards and the returned value
intersect(n, s) ==
    IF MeetingPairs(n, s) = {}
    THEN [north |-> n, south |-> s, ret |-> <<>>]
    ELSE LET p == FirstPair(n, s)
             a == attach(n.frontier[p[1]], s.frontier[p[2]])
         IN [north |-> [n EXCEPT !.frontier[p[1]] = a.self],
             south |-> [s EXCEPT !.frontier[p[2]] = a.other],
             ret   |-> a.ret]

----------------------------------------------------------------------------
(* Inputs                                                                  *)

PoolSize == 6

Pool ==
    << <<"b","c">>, <<"a","b","c">>, <<"a">>, <<"A","c">>, <<"b">>, <<"c">>,
       <<"c","b">>, <<"a","b">> >>

RECURSIVE SelectByMask(_, _, _)
SelectByMask(seq, mask, i) ==
    IF i > Len(seq) THEN <<>>
    ELSE IF i \in mask THEN <<seq[i]>> \o SelectByMask(seq, mask, i + 1)
         ELSE SelectByMask(seq, mask, i + 1)

\* every non-empty sub-dictionary of the pool's first PoolSize words, in pool order
PoolDictionaries ==
    {SelectByMask(Pool, mask, 1) : mask \in (SUBSET (1..PoolSize)) \ {{}}}

AnagramInput == <<"C","-","b">>

PoolInputs == {Pool[i] : i \in 1..PoolSize} \cup {AnagramInput}

cat == <<"c","a","t">>
cop == <<"c","o","p">>
cot == <<"c","o","t">>
xyz == <<"x","y","z">>

CatDictionary ==
    << cat, <<"c","a","t","s">>, <<"c","a","s","t">>, <<"c","o","s","t">>, cot, cop >>

BackwardDictionary ==
    << <<"a","a","b">>, <<"b">>, <<"a","a","b","b">>, <<"b","b">>,
       <<"a","b","b","b">>, <<"a","b">>, <<"b","b","b">>, <<"a">> >>

\* a dictionary and words for which a frontier node meets a cheaper duplicate
DuplicateDictionary ==
    << <<"a","a","a","b">>, <<"a">>, <<"a","b","b">>, <<"a","a","b">>,
       <<"a","a","a">>, <<"a","a">>, <<"a","b">> >>

\* a dictionary and words for which nodes of equal total cost wait in a frontier
TieDictionary ==
    << <<"c","c">>, <<"b","c">>, <<"a","b","c">>, <<"c">>, <<"a","c">>,
       <<"a","b","b">>, <<"a","b">> >>

Cases ==
    (PoolDictionaries \X PoolInputs \X PoolInputs)
    \cup {<<CatDictionary, cat, cop>>, <<CatDictionary, cat, cat>>,
          <<CatDictionary, cat, xyz>>, <<CatDictionary, <<"a","c","t">>, <<"C","o","t","s">> >>,
          <<CatDictionary, <<"c","a","s","t">>, cat>>,
          <<BackwardDictionary, <<"a","b">>, <<"a","b","b","b">> >>,
          <<DuplicateDictionary, <<"a","b","b">>, <<"a","a","a">> >>,
          <<TieDictionary, <<"c">>, <<"a","b","b">> >>}

----------------------------------------------------------------------------
(* The program                                                             *)

\* the histograms of the nodes a search_step appended to the frontier:
\* g is the graph before the step (one node is popped), g2 the graph after it
NewlyInserted(g, g2) ==
    [i \in 1..(Len(g2.frontier) - (Len(g.frontier) - 1)) |->
        g2.frontier[Len(g.frontier) - 1 + i].current_hist]

\* the state after A = BiSearchGraph(start_word, target_word)
Init ==
    \E c \in Cases :
        /\ words_original = c[1]
        /\ wordlist = [i \in 1..Len(c[1]) |-> word_to_histogram(c[1][i])]
        /\ north = SearchGraph(c[2], c[3])
        /\ south = SearchGraph(c[3], c[2])
        /\ solution = <<>>
        /\ returned = <<>>
        /\ emitted = <<>>
        /\ error = ""
        /\ pc = "loop"
        /\ inserted = [north |-> <<north.frontier[1].current_hist>>,
                       south |-> <<south.frontier[1].current_hist>>]
        /\ walk = <<>>

\* the while test of BiSearchGraph.search
LoopTest ==
    /\ pc = "loop"
    /\ IF Len(north.frontier) > 0 /\ Len(south.frontier) > 0
       THEN /\ pc' = "north"
            /\ UNCHANGED <<solution, returned>>
       ELSE /\ solution' = <<>>
            /\ returned' = <<>>
            /\ pc' = "returned"
    /\ UNCHANGED <<words_original, wordlist, north, south, emitted, error, inserted, walk>>

NorthStep ==
    /\ pc = "north"
    /\ LET r == search_step(north)
       IN /\ north' = r.graph
          /\ inserted' = [inserted EXCEPT !.north = @ \o NewlyInserted(north, r.graph)]
          /\ IF r.ret # <<>>
             THEN /\ solution' = r.ret
                  /\ returned' = r.ret
                  /\ pc' = "returned"
             ELSE /\ pc' = "meet_north"
                  /\ UNCHANGED <<solution, returned>>
    /\ UNCHANGED <<words_original, wordlist, south, emitted, error, walk>>

Intersect ==
    /\ pc \in {"meet_north", "meet_south"}
    /\ LET r == intersect(north, south)
       IN /\ north' = r.north
          /\ south' = r.south
          /\ IF r.ret # <<>>
             THEN /\ solution' = r.ret
                  /\ returned' = r.ret
                  /\ pc' = "returned"
             ELSE /\ pc' = (IF pc = "meet_north" THEN "south" ELSE "loop")
                  /\ UNCHANGED <<solution, returned>>
    /\ UNCHANGED <<words_original, wordlist, emitted, error, inserted, walk>>

\* "self.solution = flip(nd_south)": flip is defined nowhere
SouthStep ==
    /\ pc = "south"
    /\ LET r == search_step(south)
       IN /\ south' = r.graph
          /\ inserted' = [inserted EXCEPT !.south = @ \o NewlyInserted(south, r.graph)]
          /\ IF r.ret # <<>>
             THEN /\ error' = "NameError"
                  /\ pc' = "exit"
             ELSE /\ pc' = "meet_south"
                  /\ UNCHANGED error
    /\ UNCHANGED <<words_original, wordlist, north, solution, returned, emitted, walk>>

\* node = A.search(); node.display_moves()
Display ==
    /\ pc = "returned"
    /\ IF returned # <<>>
       THEN /\ emitted' = list_of_moves(returned[1], north)
            /\ UNCHANGED error
       ELSE /\ error' = "AttributeError"
            /\ UNCHANGED emitted
    /\ pc' = "exit"
    /\ UNCHANGED <<words_original, wordlist, north, south, solution, returned, inserted, walk>>

Next ==
    \/ LoopTest
    \/ NorthStep
    \/ Intersect
    \/ SouthStep
    \/ Display

Spec == Init /\ [][Next]_vars

PcValues == {"loop", "north", "meet_north", "south", "meet_south", "returned", "exit"}

\* the interpreter moves on to another statement
Advance == pc # "exit" /\ pc' \in PcValues /\ pc' # pc

\* The script is one sequential thread that runs until it exits: as long as
\* it has not exited, control moves on.  Every step of Next changes pc, and
\* Next is enabled in every reachable state with pc # "exit", so this is the
\* weak fairness of Next, stated on the control position alone.
FairSpec == Spec /\ WF_pc(Advance)

----------------------------------------------------------------------------
(* heuristic on its own: histograms over the letters a and z with bounded  *)
(* counts, changed by ladder moves (one count up or down by one)           *)

WalkLetters == {0, NumLetters - 1}

MaxCount == 2

MaxMoves == 4

WalkHistograms ==
    {[k \in 0..(NumLetters - 1) |-> IF k \in WalkLetters THEN f[k] ELSE 0] :
        f \in [WalkLetters -> 0..MaxCount]}

\* the walk after a move to histogram h: heuristic is applied to the walk's
\* first histogram and h, and to h and the target
Moved(w, h) ==
    [from      |-> w.from,
     target    |-> w.target,
     at        |-> h,
     moves     |-> w.moves + 1,
     distance  |-> heuristic(w.from, h),
     remaining |-> heuristic(h, w.target)]

WalkInit ==
    /\ \E h \in WalkHistograms, t \in WalkHistograms :
          walk = [from      |-> h,
                  target    |-> t,
                  at        |-> h,
                  moves     |-> 0,
                  distance  |-> heuristic(h, h),
                  remaining |-> heuristic(h, t)]
    /\ words_original = <<>>
    /\ wordlist = <<>>
    /\ north = SearchGraph(<<>>, <<>>)
    /\ south = SearchGraph(<<>>, <<>>)
    /\ solution = <<>>
    /\ returned = <<>>
    /\ emitted = <<>>
    /\ error = ""
    /\ pc = "walk"
    /\ inserted = [north |-> <<>>, south |-> <<>>]

AddLetter ==
    /\ pc = "walk"
    /\ walk.moves < MaxMoves
    /\ \E k \in WalkLetters :
          /\ walk.at[k] < MaxCount
          /\ walk' = Moved(walk, [walk.at EXCEPT ![k] = @ + 1])
    /\ UNCHANGED <<words_original, wordlist, north, south, solution, returned, emitted,
                   error, pc, inserted>>

RemoveLetter ==
    /\ pc = "walk"
    /\ walk.moves < MaxMoves
    /\ \E k \in WalkLetters :
          /\ walk.at[k] > 0
          /\ walk' = Moved(walk, [walk.at EXCEPT ![k] = @ - 1])
    /\ UNCHANGED <<words_original, wordlist, north, south, solution, returned, emitted,
                   error, pc, inserted>>

WalkNext == AddLetter \/ RemoveLetter

WalkSpec == WalkInit /\ [][WalkNext]_vars

----------------------------------------------------------------------------
(* Vocabulary of the properties, independent of the program's operators    *)

Letters == 0..(NumLetters - 1)

RECURSIVE SumOver(_, _, _)
SumOver(S, h1, h2) ==
    IF S = {} THEN 0
    ELSE LET k == CHOOSE x \in S : TRUE
         IN (IF h1[k] >= h2[k] THEN h1[k] - h2[k] ELSE h2[k] - h1[k])
            + SumOver(S \ {k}, h1, h2)

\* L1 distance of two histograms (letters with equal counts add nothing)
L1Distance(h1, h2) == SumOver({k \in Letters : h1[k] # h2[k]}, h1, h2)

\* one ladder move: exactly one letter added or removed
Adjacent(h1, h2) ==
    LET D == {k \in Letters : h1[k] # h2[k]}
    IN /\ Cardinality(D) = 1
       /\ \A k \in D : h1[k] = h2[k] + 1 \/ h2[k] = h1[k] + 1

DictionaryHistograms == {wordlist[i] : i \in 1..Len(wordlist)}

InDictionary(h) == h \in DictionaryHistograms

StartAndTargetInDictionary ==
    InDictionary(north.start_hist) /\ InDictionary(north.target_hist)

\* histogram of a path entry
HistOf(index) == wordlist[index + 1]

\* breadth-first distance from the histograms in `level` (at distance d) to
\* `goal` inside the vertex set V, -1 if unreachable
RECURSIVE BreadthFirst(_, _, _, _, _)
BreadthFirst(V, seen, level, goal, d) ==
    IF goal \in level THEN d
    ELSE LET nxt == {v \in V \ seen : \E u \in level : Adjacent(u, v)}
         IN IF nxt = {} THEN -1
            ELSE BreadthFirst(V, seen \cup nxt, nxt, goal, d + 1)

ShortestDistance(V, from, goal) == BreadthFirst(V, {from}, {from}, goal, 0)

\* number of add/remove steps of a path of word indices (an anagram step is free)
RECURSIVE PathMoves(_)
PathMoves(path) ==
    IF Len(path) <= 1 THEN 0
    ELSE (IF HistOf(path[1]) = HistOf(path[2]) THEN 0 ELSE 1) + PathMoves(Tail(path))

SearchReturned == pc \in {"returned", "exit"}

----------------------------------------------------------------------------
(* C1 - C10                                                                *)

\* C1 (Validity): whenever the search returns a solution node (start and
\* target being dictionary words, so that every path entry is a word index),
\* every two consecutive entries of its path have histograms at L1 distance
\* 1 or 0.
C1_Validity ==
    (SearchReturned /\ returned # <<>> /\ StartAndTargetInDictionary) =>
        \A i \in 1..(Len(returned[1].actions) - 1) :
            L1Distance(HistOf(returned[1].actions[i]),
                       HistOf(returned[1].actions[i + 1])) \in {0, 1}

\* C2 (Optimality): whenever the search returns a solution for two connected
\* dictionary words, its number of moves, and its cost_f, equal the
\* breadth-first distance in the graph of the dictionary's histograms.
C2_Optimality ==
    (SearchReturned /\ returned # <<>> /\ StartAndTargetInDictionary) =>
        LET d == ShortestDistance(DictionaryHistograms, north.start_hist,
                                  north.target_hist)
        IN /\ returned[1].cost_f = d
           /\ PathMoves(returned[1].actions) = d

\* C3 (Endpoint fidelity): whenever a solution is returned for start and
\* target words whose histograms occur in the dictionary (taken here for two
\* words of different anagram classes, so that the path has a first and a
\* different last entry), the emitted sequence starts with the literal start
\* word and ends with the literal target word.
C3_EndpointFidelity ==
    (pc = "exit" /\ returned # <<>> /\ StartAndTargetInDictionary
        /\ north.start_hist # north.target_hist) =>
        /\ emitted # <<>>
        /\ emitted[1] = north.start_word
        /\ emitted[Len(emitted)] = north.target_word

\* C4 (WordNotInDictionary fail-fast): when the start or the target histogram
\* is the histogram of no dictionary entry, no frontier node is ever popped
\* or expanded in either graph, and the run ends with the error
\* WordNotInDictionary.
C4_FailFast ==
    (~InDictionary(north.start_hist) \/ ~InDictionary(north.target_hist)) =>
        /\ north.closed = <<>> /\ Len(north.frontier) = 1
        /\ south.closed = <<>> /\ Len(south.frontier) = 1
        /\ (SearchReturned => error = "WordNotInDictionary")

\* the histograms connected to `from` by ladder moves through the dictionary
\* (start and target count as vertices even when they are no dictionary words)
RECURSIVE Component(_, _)
Component(V, reached) ==
    LET nxt == {v \in V \ reached : \E u \in reached : Adjacent(u, v)}
    IN IF nxt = {} THEN reached ELSE Component(V, reached \cup nxt)

Disconnected ==
    north.target_hist \notin
        Component(DictionaryHistograms \cup {north.start_hist, north.target_hist},
                  {north.start_hist})

NoPathResult ==
    /\ SearchReturned
    /\ returned = <<>>
    /\ solution = <<>>
    /\ error # "NameError"

\* C5 (No-path termination): when start and target lie in different
\* connected components of the distance-1 graph, the search terminates and
\* its result is None; it never returns a node and never ends in another way.
C5_NoPathTermination ==
    /\ Disconnected ~> NoPathResult
    /\ [](Disconnected => (returned = <<>> /\ solution = <<>> /\ error # "NameError"))

\* a disconnected search that expanded nodes on both sides and returned None
C5_Witness ==
    /\ Disconnected
    /\ NoPathResult
    /\ Len(north.closed) >= 2
    /\ Len(south.closed) >= 1
    /\ StartAndTargetInDictionary

\* C6 (Fuse-and-return): whenever an intersection check finds a forward and a
\* backward frontier node with equal histograms, the search returns a fused
\* solution at that very check (stated for start and target words of the
\* dictionary).
C6_FuseAndReturn ==
    [][(pc \in {"meet_north", "meet_south"} /\ MeetingPairs(north, south) # {}
            /\ StartAndTargetInDictionary)
        => (pc' = "returned" /\ returned' # <<>> /\ solution' = returned')]_vars

\* C7 (Fusion result): fusing forward node F and backward node B gives the
\* path F.path followed by B.path reversed without its first (boundary)
\* entry, cost F.g + B.g, heuristic 0; the path has F.g + B.g + 1 entries and
\* ends on the backward graph's start (stated for start and target words of
\* the dictionary).
C7_FusionResult ==
    [][(pc \in {"meet_north", "meet_south"} /\ MeetingPairs(north, south) # {}
            /\ StartAndTargetInDictionary) =>
        LET p == FirstPair(north, south)
            F == north.frontier[p[1]]
            B == south.frontier[p[2]]
            fused == north'.frontier[p[1]]
        IN /\ fused.actions = F.actions \o Tail(Reverse(B.actions))
           /\ fused.cost_f = F.cost_f + B.cost_f
           /\ fused.cost_h = 0
           /\ Len(fused.actions) = F.cost_f + B.cost_f + 1
           /\ HistOf(fused.actions[Len(fused.actions)]) = south.start_hist]_vars

\* C8 (Backward solution): whenever the backward step pops a node with
\* heuristic estimate 0, the search completes normally and returns that
\* node's path reversed (first entry in the start word's class, last entry in
\* the target word's class); stated for start and target words of the
\* dictionary.
C8_BackwardSolution ==
    [][(pc = "south" /\ Head(SortFrontier(south.frontier)).cost_h = 0
            /\ StartAndTargetInDictionary) =>
        LET popped == Head(SortFrontier(south.frontier))
        IN /\ pc' = "returned"
           /\ error' = ""
           /\ returned' # <<>>
           /\ returned'[1].actions = Reverse(popped.actions)
           /\ HistOf(returned'[1].actions[1]) = north.start_hist
           /\ HistOf(returned'[1].actions[Len(popped.actions)]) = north.target_hist]_vars

IdenticalEndpoints ==
    /\ north.start_hist = north.target_hist
    /\ InDictionary(north.start_hist)

\* lowest index of a dictionary entry with histogram h
FirstIndex(h) ==
    (CHOOSE i \in 1..Len(wordlist) :
        wordlist[i] = h /\ \A j \in 1..Len(wordlist) : wordlist[j] = h => i <= j) - 1

\* C9 (Identical endpoints): when start and target have the same histogram
\* and it occurs in the dictionary, the first forward step returns the root:
\* a one-entry path, cost 0, nothing expanded, the backward graph untouched.
C9_IdenticalEndpoints ==
    IdenticalEndpoints =>
        /\ pc \in {"loop", "north", "returned", "exit"}
        /\ north.closed = <<>>
        /\ south.closed = <<>>
        /\ Len(south.frontier) = 1
        /\ error = ""
        /\ (pc \in {"loop", "north"} => Len(north.frontier) = 1 /\ returned = <<>>)
        /\ (SearchReturned =>
                /\ returned # <<>>
                /\ returned[1].actions = <<FirstIndex(north.start_hist)>>
                /\ returned[1].cost_f = 0
                /\ returned[1].current_hist = north.target_hist
                /\ north.frontier = <<>>
                /\ solution = returned)

\* the root was returned by the first forward step for two different spellings
C9_Witness ==
    /\ IdenticalEndpoints
    /\ north.start_word # north.target_word
    /\ pc = "exit"
    /\ returned # <<>>
    /\ Len(wordlist) >= 2

Fixture1 ==
    /\ words_original = CatDictionary
    /\ north.start_word = cat
    /\ north.target_word = cop

\* C10 (Fixture 1) as stated: from "cat" to "cop" in the six-word dictionary
\* the emitted path is cat, cot, cop, every step being at histogram distance
\* 0 or 1.
C10_Fixture1Stated ==
    (Fixture1 /\ pc = "exit") =>
        /\ emitted = <<cat, cot, cop>>
        /\ \A i \in 1..(Len(emitted) - 1) :
              L1Distance(word_to_histogram(emitted[i]),
                         word_to_histogram(emitted[i + 1])) \in {0, 1}

\* C10 amended: from "cat" to "cop" in the six-word dictionary the search
\* returns no solution and nothing is emitted (no ladder of add/remove moves
\* exists there: "cat" and "cot" are two moves apart).
C10_Fixture1NoPath ==
    Fixture1 =>
        /\ returned = <<>>
        /\ solution = <<>>
        /\ emitted = <<>>
        /\ error # "NameError"
        /\ ShortestDistance(DictionaryHistograms, north.start_hist, north.target_hist) = -1

C10_Witness ==
    /\ Fixture1
    /\ pc = "exit"
    /\ north.closed # <<>>
    /\ south.closed # <<>>

----------------------------------------------------------------------------
(* C11 - C18                                                               *)

\* C11 (Admissibility): after N ladder moves from h1 (each changing one
\* letter count by one) the histogram reached is at heuristic distance at
\* most N from h1, and one move changes the heuristic distance to the target
\* by at most 1.
C11_Admissibility ==
    /\ [](pc = "walk" => walk.distance <= walk.moves)
    /\ [][pc = "walk" =>
            /\ walk'.remaining - walk.remaining <= 1
            /\ walk.remaining - walk'.remaining <= 1]_vars

\* a detour of at least three moves that is still away from its first histogram
C11_Witness ==
    /\ pc = "walk"
    /\ walk.moves >= 3
    /\ walk.distance > 0
    /\ walk.distance < walk.moves
    /\ walk.remaining > 0

\* one search_step of a graph: g before, g2 after (a node left the frontier)
Stepped(g, g2) ==
    \/ Len(g2.closed) = Len(g.closed) + 1
    \/ (g.solution = <<>> /\ g2.solution # <<>>)

\* the node that step removed from the frontier
Popped(g, g2) ==
    IF Len(g2.closed) = Len(g.closed) + 1 THEN g2.closed[Len(g2.closed)]
    ELSE g2.solution[1]

Expanded(g, g2) == Len(g2.closed) = Len(g.closed) + 1

\* the step replaced every frontier entry for which it generated a successor
\* of strictly lower total cost
Replaced(g, g2) ==
    Expanded(g, g2) =>
        LET popped == Popped(g, g2)
        IN \A i \in 1..Len(wordlist) :
             LET h == wordlist[i]
                 total == popped.cost_f + 1 + L1Distance(h, g.target_hist)
             IN (/\ Adjacent(popped.current_hist, h)
                 /\ \A k \in 1..Len(g2.closed) : g2.closed[k].current_hist # h
                 /\ \E k \in 1..Len(g.frontier) :
                       /\ g.frontier[k].current_hist = h
                       /\ g.frontier[k].cost_total > total)
                => \E k \in 1..Len(g2.frontier) :
                       /\ g2.frontier[k].current_hist = h
                       /\ g2.frontier[k].cost_total <= total

\* C12 (Decrease-key): when a search_step generates a successor whose
\* histogram is already in the frontier with a strictly higher total cost,
\* the frontier entry after the step carries the successor's lower cost.
C12_DecreaseKey ==
    [][Replaced(north, north') /\ Replaced(south, south')]_vars

\* position of the latest insertion of histogram h in an insertion history
InsertionRank(history, h) ==
    CHOOSE p \in 1..Len(history) :
        /\ history[p] = h
        /\ \A q \in 1..Len(history) : history[q] = h => q <= p

\* the popped node has minimal total cost over the frontier before the step,
\* and no node of the same total cost was inserted before it
StableMinimum(g, g2, history) ==
    Stepped(g, g2) =>
        LET popped == Popped(g, g2)
        IN \A k \in 1..Len(g.frontier) :
             /\ popped.cost_total <= g.frontier[k].cost_total
             /\ g.frontier[k].cost_total = popped.cost_total
                  => InsertionRank(history, popped.current_hist)
                        <= InsertionRank(history, g.frontier[k].current_hist)

\* C13 (Stable minimum pop): every search_step removes a frontier node of
\* minimal total cost, and among those the one inserted earliest.
C13_StableMinimumPop ==
    [][/\ StableMinimum(north, north', inserted.north)
       /\ StableMinimum(south, south', inserted.south)]_vars

\* the nodes a graph holds in its frontier and its closed list
GraphNodes(g) ==
    {g.frontier[k] : k \in 1..Len(g.frontier)} \cup {g.closed[k] : k \in 1..Len(g.closed)}

\* the nodes held as a solution by a graph or by the bidirectional search
SolutionNodes ==
    {sol[1] : sol \in {x \in {north.solution, south.solution, solution, returned} : x # <<>>}}

\* C14 (Path-length invariant): every node in either graph's frontier or
\* closed list and every solution node has a path of exactly cost_f + 1
\* entries; stated for start and target words of the dictionary.
C14_PathLength ==
    StartAndTargetInDictionary =>
        \A nd \in GraphNodes(north) \cup GraphNodes(south) \cup SolutionNodes :
            Len(nd.actions) = nd.cost_f + 1

\* a path from the graph's start to the node's histogram in steps of distance 1
PathShape(g, nd) ==
    /\ nd.actions # <<>>
    /\ HistOf(nd.actions[1]) = g.start_hist
    /\ HistOf(nd.actions[Len(nd.actions)]) = nd.current_hist
    /\ \A k \in 1..(Len(nd.actions) - 1) :
          Adjacent(HistOf(nd.actions[k]), HistOf(nd.actions[k + 1]))

\* C15 (Path-shape invariant): for every node in a graph's frontier or closed
\* list the path starts with a word of that graph's start histogram, ends
\* with a word of the node's histogram, and consecutive entries are at
\* distance exactly 1, for both graphs and also after intersection checks;
\* stated for start and target words of the dictionary.
C15_PathShape ==
    StartAndTargetInDictionary =>
        /\ \A nd \in GraphNodes(north) : PathShape(north, nd)
        /\ \A nd \in GraphNodes(south) : PathShape(south, nd)

\* the costs of a node agree with its histogram and the graph's target
CostConsistent(g, nd) ==
    /\ nd.cost_h = L1Distance(nd.current_hist, g.target_hist)
    /\ nd.cost_total = nd.cost_f + nd.cost_h

\* C17 (Cost-consistency invariant): every node in a graph's frontier or
\* closed list has cost_h equal to the distance of its histogram to the
\* graph's target and cost_total = cost_f + cost_h, and a node a search_step
\* returned as the graph's solution has the graph's target histogram; stated
\* for start and target words of the dictionary.
C17_CostConsistency ==
    StartAndTargetInDictionary =>
        \A g \in {north, south} :
            /\ \A nd \in GraphNodes(g) : CostConsistent(g, nd)
            /\ g.solution # <<>> => g.solution[1].current_hist = g.target_hist

\* C16 (Canonical representative): when start and target histograms occur in
\* the dictionary, every word index in the path of a frontier, closed or
\* solution node is the lowest index of the dictionary entries with that
\* histogram.
C16_CanonicalRepresentative ==
    StartAndTargetInDictionary =>
        \A nd \in GraphNodes(north) \cup GraphNodes(south) \cup SolutionNodes :
            \A k \in 1..Len(nd.actions) :
                nd.actions[k] = FirstIndex(HistOf(nd.actions[k]))

\* the dictionary entries with histogram h
Anagrams(h) == {i \in 1..Len(wordlist) : wordlist[i] = h}

\* a graph whose root stands for a class of several anagrams, and a node
\* generated by an expansion that stands for such a class
C16_Witness ==
    /\ StartAndTargetInDictionary
    /\ Cardinality(Anagrams(north.start_hist)) > 1
    /\ \E nd \in GraphNodes(north) \cup GraphNodes(south) :
          /\ Len(nd.actions) > 1
          /\ Cardinality(Anagrams(nd.current_hist)) > 1
          /\ Adjacent(HistOf(nd.actions[Len(nd.actions) - 1]), nd.current_hist)

\* no histogram occurs twice in a sequence of nodes
UniqueHistograms(nodes) ==
    \A i \in 1..Len(nodes), j \in 1..Len(nodes) :
        nodes[i].current_hist = nodes[j].current_hist => i = j

\* C18 (Frontier/closed uniqueness): in each graph no two frontier nodes and
\* no two closed nodes have equal histograms, no histogram is in both lists,
\* and the number of expanded nodes is at most the number of distinct
\* dictionary histograms plus one.
C18_Uniqueness ==
    \A g \in {north, south} :
        /\ UniqueHistograms(g.frontier)
        /\ UniqueHistograms(g.closed)
        /\ \A i \in 1..Len(g.frontier), j \in 1..Len(g.closed) :
              g.frontier[i].current_hist # g.closed[j].current_hist
        /\ Len(g.closed) <= Cardinality(DictionaryHistograms) + 1

\* a frontier node adjacent to two expanded nodes: it was generated twice
\* and is held once
C18_Witness ==
    /\ Len(north.frontier) > 1
    /\ \E i \in 1..Len(north.frontier), j \in 1..Len(north.closed), k \in 1..Len(north.closed) :
          /\ j < k
          /\ Adjacent(north.frontier[i].current_hist, north.closed[j].current_hist)
          /\ Adjacent(north.frontier[i].current_hist, north.closed[k].current_hist)

====
